---- MODULE Spec2Model ----
(***************************************************************************)
(* Model of src/main.py: UTF8Converter.convert_file (chunked read, UTF-8   *)
(* incremental decoding with a one-time Latin-1 fallback, UTF-8 output)    *)
(* and async_batch_convert (relocation of non-.txt entries, fan-out of one *)
(* conversion per .txt entry to worker threads, collection of results).    *)
(*                                                                         *)
(* Bytes and code points are naturals.  A file is a sequence of bytes, a   *)
(* text a sequence of code points, a file name a sequence of characters,   *)
(* a path a pair <<directory, name>>.                                      *)
(***************************************************************************)
EXTENDS Integers, Sequences, FiniteSets, TLC

VARIABLES fs, chunk_size, conv, driver, completed, dir0, main

vars == <<fs, chunk_size, conv, driver, completed, dir0, main>>

(***************************************************************************)
(* Bounds of the model.                                                    *)
(***************************************************************************)
MaxLen == 3
MaxChunk == 2

(***************************************************************************)
(* Program constant: chunk_size = 4096 (main.py line 71).                  *)
(***************************************************************************)
DefaultChunkSize == 4096

\* Bytes the file contents are drawn from: LF, 'A', two continuation bytes
\* (below and above 0xA0), a 2-byte lead, two 3-byte leads (0xED is the lead
\* whose second byte is restricted to 0x80..0x9F) and an invalid byte.
SampleBytes == {10, 65, 128, 169, 195, 226, 237, 255}

RECURSIVE SeqsUpTo(_, _)
SeqsUpTo(S, n) ==
    IF n = 0 THEN {<<>>}
    ELSE LET shorter == SeqsUpTo(S, n - 1)
         IN  shorter \cup {Append(s, b) : s \in {t \in shorter : Len(t) = n - 1}, b \in S}

Contents == SeqsUpTo(SampleBytes, MaxLen)

ChunkSizes == (1..MaxChunk) \cup {DefaultChunkSize}

\* The content of a path that holds no file (not a byte sequence).
Absent == <<-1>>

Min(a, b) == IF a < b THEN a ELSE b

(***************************************************************************)
(* codecs: the "utf-8" incremental decoder.                                *)
(***************************************************************************)
IS_CONTINUATION_BYTE(b) == b >= 128 /\ b <= 191

\* Length of the sequence a lead byte announces; 0 for an invalid start byte
\* (0x80..0xC1 and 0xF5..0xFF).
Utf8SeqLen(ch) ==
    IF ch < 128 THEN 1
    ELSE IF ch < 194 THEN 0
    ELSE IF ch < 224 THEN 2
    ELSE IF ch < 240 THEN 3
    ELSE IF ch < 245 THEN 4
    ELSE 0

\* The second byte is rejected: not a continuation byte, an overlong form
\* (E0 80..9F, F0 80..8F), a surrogate (ED A0..BF) or beyond U+10FFFF (F4 90..).
InvalidContinuation1(ch, ch2) ==
    \/ ~IS_CONTINUATION_BYTE(ch2)
    \/ ch = 224 /\ ch2 < 160
    \/ ch = 237 /\ ch2 >= 160
    \/ ch = 240 /\ ch2 < 144
    \/ ch = 244 /\ ch2 >= 144

Utf8CodePoint(data, i, need) ==
    IF need = 1 THEN data[i]
    ELSE IF need = 2 THEN (data[i] - 192) * 64 + (data[i + 1] - 128)
    ELSE IF need = 3 THEN (data[i] - 224) * 4096 + (data[i + 1] - 128) * 64
                          + (data[i + 2] - 128)
    ELSE (data[i] - 240) * 262144 + (data[i + 1] - 128) * 4096
         + (data[i + 2] - 128) * 64 + (data[i + 3] - 128)

DecodeError == [err |-> TRUE, text |-> <<>>, consumed |-> 0]

\* codecs.utf_8_decode(data, "strict", final) from byte i on, acc being the
\* text decoded so far.  An incomplete sequence at the end of data stops the
\* scan when final is false and is an error when final is true.  A sequence
\* that can no longer become valid is an error as soon as the offending byte
\* is there, except the two bytes ED A0..BF at the very end of non-final
\* data, which are kept as incomplete.
RECURSIVE utf_8_decode(_, _, _, _)
utf_8_decode(data, i, acc, final) ==
    IF i > Len(data) THEN [err |-> FALSE, text |-> acc, consumed |-> Len(data)]
    ELSE
      LET ch    == data[i]
          need  == Utf8SeqLen(ch)
          avail == Len(data) - i + 1
          truncatedSurrogate ==
              ~final /\ ch = 237 /\ avail = 2 /\ IS_CONTINUATION_BYTE(data[i + 1])
      IN  IF need = 0 THEN DecodeError
          ELSE IF need = 1 THEN utf_8_decode(data, i + 1, Append(acc, ch), final)
          ELSE IF avail >= 2 /\ InvalidContinuation1(ch, data[i + 1])
                  /\ ~truncatedSurrogate THEN DecodeError
          ELSE IF need >= 3 /\ avail >= 3
                  /\ ~IS_CONTINUATION_BYTE(data[i + 2]) THEN DecodeError
          ELSE IF need = 4 /\ avail >= 4
                  /\ ~IS_CONTINUATION_BYTE(data[i + 3]) THEN DecodeError
          ELSE IF avail < need
               THEN IF final THEN DecodeError
                    ELSE [err |-> FALSE, text |-> acc, consumed |-> i - 1]
          ELSE utf_8_decode(data, i + need,
                            Append(acc, Utf8CodePoint(data, i, need)), final)

\* codecs.latin_1_decode: one code point per byte, never an error.
latin_1_decode(data) == [i \in 1..Len(data) |-> data[i]]

\* decode with every call taken as final: the UTF-8 decoder keeps no
\* incomplete sequence for the next chunk.
decode_unbuffered(encoding, buffer, input, final) ==
    IF encoding = "latin-1"
    THEN [err |-> FALSE, text |-> latin_1_decode(input), buffer |-> <<>>]
    ELSE LET r == utf_8_decode(buffer \o input, 1, <<>>, TRUE)
         IN  IF r.err THEN [err |-> TRUE, text |-> <<>>, buffer |-> buffer]
             ELSE [err |-> FALSE, text |-> r.text, buffer |-> <<>>]

\* decoder.decode(input, final) of the active incremental decoder.  The
\* UTF-8 decoder (a BufferedIncrementalDecoder) decodes buffer + input and
\* keeps the unconsumed tail as its new buffer; on an error the call raises
\* and the decoder is left as it was.  The Latin-1 decoder has no buffer.
\* Result: err, the decoded text and the decoder's buffer after the call.
decode(encoding, buffer, input, final) ==
    IF encoding = "latin-1"
    THEN [err |-> FALSE, text |-> latin_1_decode(input), buffer |-> <<>>]
    ELSE LET data == buffer \o input
             r    == utf_8_decode(data, 1, <<>>, final)
         IN  IF r.err THEN [err |-> TRUE, text |-> <<>>, buffer |-> buffer]
             ELSE [err |-> FALSE, text |-> r.text,
                   buffer |-> SubSeq(data, r.consumed + 1, Len(data))]

(***************************************************************************)
(* The destination is opened in text mode with encoding="utf-8": a write   *)
(* translates "\n" to os.linesep and encodes the text as UTF-8.            *)
(***************************************************************************)
\* os.linesep of a POSIX host (the application is deployed in a container).
linesep == <<10>>

\* The destination opened with encoding="latin-1": one byte per character
\* below U+0100.
utf_8_encode_char_latin_1(cp) ==
    IF cp < 256 THEN <<cp>>
    ELSE IF cp < 2048 THEN <<192 + (cp \div 64), 128 + (cp % 64)>>
    ELSE <<224 + (cp \div 4096), 128 + ((cp \div 64) % 64), 128 + (cp % 64)>>


utf_8_encode_char(cp) ==
    IF cp < 128 THEN <<cp>>
    ELSE IF cp < 2048 THEN <<192 + (cp \div 64), 128 + (cp % 64)>>
    ELSE IF cp < 65536
         THEN <<224 + (cp \div 4096), 128 + ((cp \div 64) % 64), 128 + (cp % 64)>>
    ELSE <<240 + (cp \div 262144), 128 + ((cp \div 4096) % 64),
           128 + ((cp \div 64) % 64), 128 + (cp % 64)>>

RECURSIVE TextToBytes(_)
TextToBytes(text) ==
    IF text = <<>> THEN <<>>
    ELSE (IF Head(text) = 10 THEN linesep ELSE utf_8_encode_char(Head(text)))
         \o TextToBytes(Tail(text))

\* A lone surrogate cannot be encoded: the write raises UnicodeEncodeError.
Encodable(text) == \A i \in 1..Len(text) : text[i] < 55296 \/ text[i] > 57343


(***************************************************************************)
(* Files and paths.                                                        *)
(***************************************************************************)
TxtLower  == <<"a", ".", "t", "x", "t">>
TxtUpper  == <<"B", ".", "T", "X", "T">>
NoExt     == <<"c", ".", "m", "d">>
TxtInside == <<"d", ".", "t", "x", "t", ".", "b">>

Names == {TxtLower, TxtUpper, NoExt, TxtInside}

Dirs == {"in", "out", "err"}

Paths == Dirs \X Names

\* os.path.join(dir, name)
join(dir, name) == <<dir, name>>

\* os.listdir(dir)
listdir(dir) == {n \in Names : fs[join(dir, n)] # Absent}

\* A converter that writes in place of its source.
UTF8Converter_in_place(input_path, output_path) ==
    [input_path    |-> input_path,
     output_path   |-> input_path,
     pc            |-> "ready",
     encoding      |-> "none",
     buffer        |-> <<>>,
     fallback_used |-> FALSE,
     infile_open   |-> FALSE,
     outfile_open  |-> FALSE,
     pos           |-> 0,
     chunk         |-> <<>>,
     decoded_chunk |-> <<>>,
     error         |-> "none",
     log           |-> <<>>]

\* UTF8Converter.__init__: the converter holds its two paths; the locals of
\* convert_file are not set before the call.
UTF8Converter(input_path, output_path) ==
    [input_path    |-> input_path,
     output_path   |-> output_path,
     pc            |-> "ready",
     encoding      |-> "none",
     buffer        |-> <<>>,
     fallback_used |-> FALSE,
     infile_open   |-> FALSE,
     outfile_open  |-> FALSE,
     pos           |-> 0,
     chunk         |-> <<>>,
     decoded_chunk |-> <<>>,
     error         |-> "none",
     log           |-> <<>>]

\* Raise with the exception swallowed: the run goes on to its normal end.
Raise_swallowed(s, exc) ==
    [s EXCEPT !.pc = "close", !.error = exc]

\* Raise without a with block around the files: the handles stay as they are.
Raise_leaking(s, exc) ==
    [s EXCEPT !.pc = "except", !.error = exc]

\* The exception leaves the with block (both handles are closed) and reaches
\* the except clause of convert_file.
Raise(s, exc) ==
    [s EXCEPT !.pc = "except", !.error = exc,
              !.infile_open = FALSE, !.outfile_open = FALSE]

\* None, the value of os.getenv for a variable that is not set.
None == "None"

\* No __main__ block around the call: convert_file or async_batch_convert
\* called on its own.
NoMain ==
    [pc |-> "none", input_dir |-> "in", output_dir |-> "out",
     kind |-> [p \in {"in", "out"} |-> "dir"], error |-> "none"]

NoDriver ==
    [pc |-> "none", input_dir |-> "in", output_dir |-> "out",
     not_txt_files |-> {}, files |-> {}, collected |-> {}]

(***************************************************************************)
(* UTF8Converter.convert_file, one action per step of the worker thread    *)
(* running conversion c.                                                   *)
(***************************************************************************)
\* Lines 69-75: the start event, a fresh UTF-8 decoder, fallback_used = False.
ConvertStart(c) ==
    /\ conv[c].pc = "ready"
    /\ conv' = [conv EXCEPT ![c] =
                  [@ EXCEPT !.pc = "open_in", !.encoding = "utf-8",
                            !.buffer = <<>>, !.fallback_used = FALSE,
                            !.log = Append(@, "info_start")]]
    /\ UNCHANGED <<fs, chunk_size, driver, completed, dir0, main>>

\* OpenInfile with the destination opened (created or truncated) first.
OpenInfile_after_outfile(c) ==
    /\ conv[c].pc = "open_in"
    /\ fs' = [fs EXCEPT ![conv[c].output_path] = <<>>]
    /\ \E ok \in BOOLEAN :
         /\ ok => fs[conv[c].input_path] # Absent
         /\ conv' = [conv EXCEPT ![c] =
                       IF ok THEN [@ EXCEPT !.pc = "open_out", !.infile_open = TRUE,
                                            !.pos = 0]
                       ELSE Raise(@, "OSError")]
    /\ UNCHANGED <<chunk_size, driver, completed, dir0, main>>

\* Line 77: open(input_path, "rb").  It fails when the file is missing and
\* may fail for any other reason of the host (permissions, a directory).
OpenInfile(c) ==
    /\ conv[c].pc = "open_in"
    /\ \E ok \in BOOLEAN :
         /\ ok => fs[conv[c].input_path] # Absent
         /\ conv' = [conv EXCEPT ![c] =
                       IF ok THEN [@ EXCEPT !.pc = "open_out", !.infile_open = TRUE,
                                            !.pos = 0]
                       ELSE Raise(@, "OSError")]
    /\ UNCHANGED <<fs, chunk_size, driver, completed, dir0, main>>

\* OpenOutfile with the destination opened lazily: nothing is created or
\* truncated by the open itself.
OpenOutfile_lazy(c) ==
    /\ conv[c].pc = "open_out"
    /\ \E ok \in BOOLEAN :
         conv' = [conv EXCEPT ![c] =
                    IF ok THEN [@ EXCEPT !.pc = "read", !.outfile_open = TRUE]
                    ELSE Raise(@, "OSError")]
    /\ UNCHANGED <<fs, chunk_size, driver, completed, dir0, main>>

\* Lines 77-79: open(output_path, "w", encoding="utf-8") creates or truncates
\* the destination; when it fails the source handle is released.
OpenOutfile(c) ==
    /\ conv[c].pc = "open_out"
    /\ \E ok \in BOOLEAN :
         IF ok
         THEN /\ fs' = [fs EXCEPT ![conv[c].output_path] = <<>>]
              /\ conv' = [conv EXCEPT ![c] =
                            [@ EXCEPT !.pc = "read", !.outfile_open = TRUE]]
         ELSE /\ conv' = [conv EXCEPT ![c] = Raise(@, "OSError")]
              /\ UNCHANGED fs
    /\ UNCHANGED <<chunk_size, driver, completed, dir0, main>>

\* infile.read(chunk_size) at offset pos of the file as it is now.
read(path, pos) ==
    LET data == fs[path]
    IN  IF data = Absent \/ pos >= Len(data) THEN <<>>
        ELSE SubSeq(data, pos + 1, Min(pos + chunk_size, Len(data)))

\* Lines 81-83: read the next chunk; an empty chunk ends the loop.
ReadChunk(c) ==
    /\ conv[c].pc = "read"
    /\ \E ok \in BOOLEAN :
         conv' = [conv EXCEPT ![c] =
                    IF ok
                    THEN LET chunk == read(@.input_path, @.pos)
                         IN  [@ EXCEPT !.chunk = chunk,
                                       !.pos = @ + Len(chunk),
                                       !.pc = IF chunk = <<>> THEN "flush"
                                              ELSE "decode"]
                    ELSE Raise(@, "OSError")]
    /\ UNCHANGED <<fs, chunk_size, driver, completed, dir0, main>>

\* Fallback that swaps the decoder without latching fallback_used.
Fallback_unlatched(s) ==
    [s EXCEPT !.log = Append(@, "warning_fallback"),
              !.encoding = "latin-1",
              !.buffer = <<>>,
              !.decoded_chunk = decode("latin-1", <<>>, s.chunk, FALSE).text,
              !.pc = "write"]

\* Fallback that swaps the decoder and leaves the failed chunk out.
Fallback_drops_chunk(s) ==
    IF ~s.fallback_used
    THEN [s EXCEPT !.log = Append(@, "warning_fallback"),
                   !.encoding = "latin-1",
                   !.buffer = <<>>,
                   !.fallback_used = TRUE,
                   !.decoded_chunk = <<>>,
                   !.pc = "write"]
    ELSE Raise(s, "UnicodeDecodeError")

\* Fallback that latches fallback_used and keeps the UTF-8 decoder for the
\* chunks to come.
Fallback_keeps_decoder(s) ==
    IF ~s.fallback_used
    THEN [s EXCEPT !.log = Append(@, "warning_fallback"),
                   !.fallback_used = TRUE,
                   !.decoded_chunk = decode("latin-1", <<>>, s.chunk, FALSE).text,
                   !.pc = "write"]
    ELSE Raise(s, "UnicodeDecodeError")

\* Lines 86-96, the except clause around decoder.decode(chunk): the first
\* failure swaps in a fresh Latin-1 decoder, latches fallback_used and
\* decodes the current chunk again; a failure after that is re-raised.
Fallback(s) ==
    IF ~s.fallback_used
    THEN [s EXCEPT !.log = Append(@, "warning_fallback"),
                   !.encoding = "latin-1",
                   !.buffer = <<>>,
                   !.fallback_used = TRUE,
                   !.decoded_chunk = decode("latin-1", <<>>, s.chunk, FALSE).text,
                   !.pc = "write"]
    ELSE Raise(s, "UnicodeDecodeError")

\* Lines 84-96: decoded_chunk = decoder.decode(chunk).
DecodeChunk(c) ==
    /\ conv[c].pc = "decode"
    /\ LET s == conv[c]
           r == decode(s.encoding, s.buffer, s.chunk, FALSE)
       IN  conv' = [conv EXCEPT ![c] =
                      IF r.err THEN Fallback(s)
                      ELSE [s EXCEPT !.decoded_chunk = r.text,
                                     !.buffer = r.buffer,
                                     !.pc = "write"]]
    /\ UNCHANGED <<fs, chunk_size, driver, completed, dir0, main>>

\* write that replaces the content of the destination.
write_replacing(path, text) == [fs EXCEPT ![path] = TextToBytes(text)]

\* outfile.write(text): the text is appended to the destination as UTF-8.
write(path, text) == [fs EXCEPT ![path] = @ \o TextToBytes(text)]

\* Line 97: outfile.write(decoded_chunk).
WriteChunk(c) ==
    /\ conv[c].pc = "write"
    /\ \E ok \in BOOLEAN :
         LET s == conv[c]
         IN  IF ok /\ Encodable(s.decoded_chunk)
             THEN /\ fs' = write(s.output_path, s.decoded_chunk)
                  /\ conv' = [conv EXCEPT ![c] = [s EXCEPT !.pc = "read"]]
             ELSE /\ conv' = [conv EXCEPT ![c] =
                                Raise(s, IF ok THEN "UnicodeEncodeError"
                                         ELSE "OSError")]
                  /\ UNCHANGED fs
    /\ UNCHANGED <<chunk_size, driver, completed, dir0, main>>

\* Line 98: outfile.write(decoder.decode(b"", final=True)), outside the
\* try/except of the loop: a decode error here goes straight to the outer
\* except clause.
FinalFlush(c) ==
    /\ conv[c].pc = "flush"
    /\ \E ok \in BOOLEAN :
         LET s == conv[c]
             r == decode(s.encoding, s.buffer, <<>>, TRUE)
         IN  IF r.err
             THEN /\ conv' = [conv EXCEPT ![c] = Raise(s, "UnicodeDecodeError")]
                  /\ UNCHANGED fs
             ELSE IF ok /\ Encodable(r.text)
             THEN /\ fs' = write(s.output_path, r.text)
                  /\ conv' = [conv EXCEPT ![c] =
                                [s EXCEPT !.buffer = r.buffer, !.pc = "close"]]
             ELSE /\ conv' = [conv EXCEPT ![c] =
                                Raise(s, IF ok THEN "UnicodeEncodeError"
                                         ELSE "OSError")]
                  /\ UNCHANGED fs
    /\ UNCHANGED <<chunk_size, driver, completed, dir0, main>>

\* End of the with block on the normal path: both files are closed.
CloseFiles(c) ==
    /\ conv[c].pc = "close"
    /\ conv' = [conv EXCEPT ![c] =
                  [@ EXCEPT !.pc = "log_ok", !.infile_open = FALSE,
                            !.outfile_open = FALSE]]
    /\ UNCHANGED <<fs, chunk_size, driver, completed, dir0, main>>

\* Line 100: the success event; convert_file returns and the future of the
\* worker thread completes.
LogSuccess(c) ==
    /\ conv[c].pc = "log_ok"
    /\ conv' = [conv EXCEPT ![c] =
                  [@ EXCEPT !.pc = "done", !.log = Append(@, "info_success")]]
    /\ completed' = Append(completed, c)
    /\ UNCHANGED <<fs, chunk_size, driver, dir0, main>>

\* Lines 101-106: the error event with the source path, then re-raise.
ExceptHandler(c) ==
    /\ conv[c].pc = "except"
    /\ conv' = [conv EXCEPT ![c] =
                  [@ EXCEPT !.pc = "raised", !.log = Append(@, "error")]]
    /\ completed' = Append(completed, c)
    /\ UNCHANGED <<fs, chunk_size, driver, dir0, main>>

(***************************************************************************)
(* One conversion on its own: a converter for a source of any content and  *)
(* a distinct destination that is missing or holds an older file.          *)
(***************************************************************************)
SrcPath == join("in", TxtLower)
DstPath == join("out", TxtLower)

OldDest == <<65, 65, 65, 65, 65>>

Init ==
    /\ \E content \in Contents, old \in {Absent, OldDest} :
         fs = [p \in Paths |-> IF p = SrcPath THEN content
                               ELSE IF p = DstPath THEN old ELSE Absent]
    /\ chunk_size \in ChunkSizes
    /\ conv = [c \in {TxtLower} |-> UTF8Converter(SrcPath, DstPath)]
    /\ driver = NoDriver
    /\ completed = <<>>
    /\ dir0 = [n \in Names |-> fs[join("in", n)]]
    /\ main = NoMain

Next ==
    \/ \E c \in DOMAIN conv : ConvertStart(c)
    \/ \E c \in DOMAIN conv : OpenInfile(c)
    \/ \E c \in DOMAIN conv : OpenOutfile(c)
    \/ \E c \in DOMAIN conv : ReadChunk(c)
    \/ \E c \in DOMAIN conv : DecodeChunk(c)
    \/ \E c \in DOMAIN conv : WriteChunk(c)
    \/ \E c \in DOMAIN conv : FinalFlush(c)
    \/ \E c \in DOMAIN conv : CloseFiles(c)
    \/ \E c \in DOMAIN conv : LogSuccess(c)
    \/ \E c \in DOMAIN conv : ExceptHandler(c)

Spec == Init /\ [][Next]_vars


(***************************************************************************)
(* async_batch_convert: the driver coroutine and the worker threads.       *)
(***************************************************************************)
MaxEntries == 3

\* Contents of the .txt entries of a batch: plain ASCII, a content that
\* falls back, a content cut short in a 2-byte sequence.
BatchContents == {<<65>>, <<255, 65>>, <<195>>}

\* lower left out: the extension is matched as it is spelled.
lower_missing(name) == name

\* str.lower() on the characters file names are made of.
lower(name) ==
    [i \in 1..Len(name) |->
       CASE name[i] = "B" -> "b"
         [] name[i] = "T" -> "t"
         [] name[i] = "X" -> "x"
         [] OTHER -> name[i]]

\* str.endswith(suffix)
endswith(name, suffix) ==
    /\ Len(name) >= Len(suffix)
    /\ SubSeq(name, Len(name) - Len(suffix) + 1, Len(name)) = suffix

\* f.lower().endswith(".txt")
is_txt(f) == endswith(lower(f), <<".", "t", "x", "t">>)

\* os.path.join(os.path.dirname(input_dir), "error_files")
error_dir(input_dir) == "err"

\* shutil.move(src, dst)
move(src, dst) == [fs EXCEPT ![dst] = fs[src], ![src] = Absent]

\* Lines 138-145: the non-.txt entries of the input directory.
ListNotTxt ==
    /\ driver.pc = "start"
    /\ LET not_txt_files == {f \in listdir(driver.input_dir) : ~is_txt(f)}
       IN  driver' = [driver EXCEPT !.not_txt_files = not_txt_files,
                                    !.pc = IF not_txt_files = {} THEN "list_txt"
                                           ELSE "move"]
    /\ UNCHANGED <<fs, chunk_size, conv, completed, dir0, main>>

\* Lines 147-148: one iteration of the relocation loop (os.listdir gives the
\* entries in no particular order).
MoveFile ==
    /\ driver.pc = "move"
    /\ \E file \in driver.not_txt_files :
         /\ fs[join(driver.input_dir, file)] # Absent
         /\ fs' = move(join(driver.input_dir, file),
                       join(error_dir(driver.input_dir), file))
         /\ driver' = [driver EXCEPT !.pc =
                         IF \A g \in driver.not_txt_files \ {file} :
                              fs[join(driver.input_dir, g)] = Absent
                         THEN "list_txt" ELSE "move"]
    /\ UNCHANGED <<chunk_size, conv, completed, dir0, main>>

\* Lines 150-153: the .txt entries; none of them ends the batch.
ListTxt ==
    /\ driver.pc = "list_txt"
    /\ LET files == {f \in listdir(driver.input_dir) : is_txt(f)}
       IN  driver' = [driver EXCEPT !.files = files,
                                    !.pc = IF files = {} THEN "returned"
                                           ELSE "tasks"]
    /\ UNCHANGED <<fs, chunk_size, conv, completed, dir0, main>>

\* Lines 155-164: one converter and one task per file; as_completed hands
\* every task to the executor, where it waits for a worker thread.
CreateTasks ==
    /\ driver.pc = "tasks"
    /\ conv' = [file_name \in driver.files |->
                  UTF8Converter(join(driver.input_dir, file_name),
                                join(driver.output_dir, file_name))]
    /\ driver' = [driver EXCEPT !.pc = "await"]
    /\ UNCHANGED <<fs, chunk_size, completed, dir0, main>>

\* The exception of an awaited task leaves async_batch_convert; asyncio.run
\* cancels what is left, so a conversion no worker has started never runs.
AbortBatch(cv) ==
    [c \in DOMAIN cv |-> IF cv[c].pc = "ready"
                         THEN [cv[c] EXCEPT !.pc = "cancelled"] ELSE cv[c]]

\* Lines 163-168: await the next task to complete.  The result of a failed
\* conversion is its exception, raised by the await.
AwaitTask ==
    /\ driver.pc = "await"
    /\ completed # <<>>
    /\ LET c == Head(completed)
           collected == driver.collected \cup {c}
       IN  IF conv[c].pc = "raised"
           THEN /\ driver' = [driver EXCEPT !.collected = collected,
                                            !.pc = "raised"]
                /\ conv' = AbortBatch(conv)
           ELSE /\ driver' = [driver EXCEPT !.collected = collected,
                                            !.pc = IF collected = driver.files
                                                   THEN "returned" ELSE "await"]
                /\ UNCHANGED conv
    /\ completed' = Tail(completed)
    /\ UNCHANGED <<fs, chunk_size, dir0, main>>

\* A batch: an input directory of at most MaxEntries entries, an empty
\* error_files directory, and an output directory that is either a separate
\* directory or the input directory itself (nothing in lines 172-189 tells
\* the two apart).
BatchInit ==
    /\ \E entries \in {S \in SUBSET Names : Cardinality(S) <= MaxEntries} :
         \E content \in [entries -> BatchContents] :
           /\ \A n \in entries : ~is_txt(n) => content[n] = <<65>>
           /\ fs = [p \in Paths |-> IF p[1] = "in" /\ p[2] \in entries
                                    THEN content[p[2]] ELSE Absent]
    /\ chunk_size = DefaultChunkSize
    /\ conv = <<>>
    /\ \E output_dir \in {"in", "out"} :
         driver = [NoDriver EXCEPT !.pc = "start", !.output_dir = output_dir]
    /\ completed = <<>>
    /\ dir0 = [n \in Names |-> fs[join("in", n)]]
    /\ main = NoMain

BatchNext ==
    \/ ListNotTxt
    \/ MoveFile
    \/ ListTxt
    \/ CreateTasks
    \/ AwaitTask
    \/ Next

BatchSpec == BatchInit /\ [][BatchNext]_vars




(***************************************************************************)
(* The __main__ block: configuration from the environment, then the batch. *)
(* main.kind tells of each path of the host whether it is a directory, a   *)
(* regular file or missing.                                                *)
(***************************************************************************)
\* not value, for the value of an environment variable
not_set(value) == value = None \/ value = ""

\* os.path.isdir(path)
isdir(path) == path \in DOMAIN main.kind /\ main.kind[path] = "dir"

\* Lines 175-179: both variables must be set and not empty.
CheckEnv ==
    /\ main.pc = "check_env"
    /\ main' = IF not_set(main.input_dir) \/ not_set(main.output_dir)
               THEN [main EXCEPT !.pc = "failed", !.error = "EnvironmentError"]
               ELSE [main EXCEPT !.pc = "check_input"]
    /\ UNCHANGED <<fs, chunk_size, conv, driver, completed, dir0>>

\* CheckInputDir with the test of line 181 left out.
CheckInputDir_skipped ==
    /\ main.pc = "check_input"
    /\ main' = [main EXCEPT !.pc = "check_output"]
    /\ UNCHANGED <<fs, chunk_size, conv, driver, completed, dir0>>

\* Lines 181-183: the input path must be an existing directory.
CheckInputDir ==
    /\ main.pc = "check_input"
    /\ main' = IF ~isdir(main.input_dir)
               THEN [main EXCEPT !.pc = "failed", !.error = "FileNotFoundError"]
               ELSE [main EXCEPT !.pc = "check_output"]
    /\ UNCHANGED <<fs, chunk_size, conv, driver, completed, dir0>>

\* Lines 185-187: an output path that is no directory is created with
\* os.makedirs, which raises when the path is a regular file or the host
\* refuses.
CheckOutputDir ==
    /\ main.pc = "check_output"
    /\ IF isdir(main.output_dir)
       THEN main' = [main EXCEPT !.pc = "run"]
       ELSE \E ok \in BOOLEAN :
              /\ ok => main.kind[main.output_dir] = "missing"
              /\ main' = IF ok
                         THEN [main EXCEPT !.pc = "run",
                                           !.kind[main.output_dir] = "dir"]
                         ELSE [main EXCEPT !.pc = "failed", !.error = "OSError"]
    /\ UNCHANGED <<fs, chunk_size, conv, driver, completed, dir0>>

\* Line 189: asyncio.run(async_batch_convert(input_dir, output_dir)).
RunBatch ==
    /\ main.pc = "run"
    /\ main' = [main EXCEPT !.pc = "running"]
    /\ driver' = [NoDriver EXCEPT !.pc = "start",
                                  !.input_dir = main.input_dir,
                                  !.output_dir = main.output_dir]
    /\ UNCHANGED <<fs, chunk_size, conv, completed, dir0>>

\* The process at line 172: INPUT_DIR and OUTPUT_DIR unset, empty or naming
\* a path; the input path a directory of at most MaxEntries entries, a
\* regular file or missing; the output path likewise.
MainInit ==
    /\ \E input_dir \in {None, "", "in"}, output_dir \in {None, "", "out", "in"},
          kind \in [{"in", "out"} -> {"dir", "file", "missing"}] :
         main = [pc |-> "check_env", input_dir |-> input_dir,
                 output_dir |-> output_dir, kind |-> kind, error |-> "none"]
    /\ \E entries \in {S \in SUBSET Names : Cardinality(S) <= MaxEntries} :
         \E content \in [entries -> BatchContents] :
           /\ main.kind["in"] # "dir" => entries = {}
           /\ \A n \in entries : ~is_txt(n) => content[n] = <<65>>
           /\ fs = [p \in Paths |-> IF p[1] = "in" /\ p[2] \in entries
                                    THEN content[p[2]] ELSE Absent]
    /\ chunk_size = DefaultChunkSize
    /\ conv = <<>>
    /\ driver = NoDriver
    /\ completed = <<>>
    /\ dir0 = [n \in Names |-> fs[join("in", n)]]

MainNext ==
    \/ CheckEnv
    \/ CheckInputDir
    \/ CheckOutputDir
    \/ RunBatch
    \/ BatchNext

MainSpec == MainInit /\ [][MainNext]_vars

(***************************************************************************)
(* Vocabulary of the properties.  Well-formed UTF-8 is stated from the     *)
(* table of RFC 3629, independently of the decoder above.                  *)
(***************************************************************************)
Src(c) == fs[conv[c].input_path]
Dst(c) == fs[conv[c].output_path]

Terminated(c) == conv[c].pc \in {"done", "raised"}

\* The run met no failure of the host (open, read or write error).
NoHostError(c) == conv[c].error # "OSError"

InRange(b, lo, hi) == lo <= b /\ b <= hi

Tail1(b) == InRange(b, 128, 191)

\* The second byte fits the lead byte b1 of a 3- or 4-byte sequence.
SecondFits(b1, b2) ==
    \/ b1 = 224 /\ InRange(b2, 160, 191)
    \/ InRange(b1, 225, 236) /\ Tail1(b2)
    \/ b1 = 237 /\ InRange(b2, 128, 159)
    \/ InRange(b1, 238, 239) /\ Tail1(b2)
    \/ b1 = 240 /\ InRange(b2, 144, 191)
    \/ InRange(b1, 241, 243) /\ Tail1(b2)
    \/ b1 = 244 /\ InRange(b2, 128, 143)

\* t is one well-formed UTF-8 sequence (one character).
WellFormedChar(t) ==
    \/ Len(t) = 1 /\ InRange(t[1], 0, 127)
    \/ Len(t) = 2 /\ InRange(t[1], 194, 223) /\ Tail1(t[2])
    \/ Len(t) = 3 /\ InRange(t[1], 224, 239) /\ SecondFits(t[1], t[2]) /\ Tail1(t[3])
    \/ Len(t) = 4 /\ InRange(t[1], 240, 244) /\ SecondFits(t[1], t[2])
                  /\ Tail1(t[3]) /\ Tail1(t[4])

\* t is a proper, non-empty prefix of a well-formed multi-byte sequence.
TruncatedChar(t) ==
    \/ Len(t) = 1 /\ InRange(t[1], 194, 244)
    \/ Len(t) = 2 /\ InRange(t[1], 224, 244) /\ SecondFits(t[1], t[2])
    \/ Len(t) = 3 /\ InRange(t[1], 240, 244) /\ SecondFits(t[1], t[2]) /\ Tail1(t[3])

RECURSIVE IsValidUTF8(_)
IsValidUTF8(b) ==
    \/ b = <<>>
    \/ \E n \in 1..Min(4, Len(b)) :
         WellFormedChar(SubSeq(b, 1, n)) /\ IsValidUTF8(SubSeq(b, n + 1, Len(b)))

\* b is well-formed UTF-8 up to a last character that is cut short.
EndsMidSequence(b) ==
    \E n \in 1..Min(3, Len(b)) :
      /\ TruncatedChar(SubSeq(b, Len(b) - n + 1, Len(b)))
      /\ IsValidUTF8(SubSeq(b, 1, Len(b) - n))

\* The UTF-8 form of the text that has one Latin-1 character per byte of b.
Latin1AsUtf8(b) ==
    IF b = <<>> THEN <<>>
    ELSE LET E(x) == IF x < 128 THEN <<x>> ELSE <<192 + (x \div 64), 128 + (x % 64)>>
             F[i \in 0..Len(b)] == IF i = 0 THEN <<>> ELSE F[i - 1] \o E(b[i])
         IN  F[Len(b)]

\* Number of characters of a well-formed UTF-8 byte sequence.
CharCount(b) == Cardinality({i \in 1..Len(b) : ~Tail1(b[i])})

FallbackCount(log) == Cardinality({i \in 1..Len(log) : log[i] = "warning_fallback"})

Prefix(b, k) == SubSeq(b, 1, k)
Suffix(b, k) == SubSeq(b, k + 1, Len(b))

\* The destination represents every source byte exactly once: a well-formed
\* UTF-8 prefix as it is, the rest as one Latin-1 character per byte.
EveryByteOnce(c) ==
    \E k \in 0..Len(Src(c)) :
      /\ IsValidUTF8(Prefix(Src(c), k))
      /\ Dst(c) = Prefix(Src(c), k) \o Latin1AsUtf8(Suffix(Src(c), k))

\* C1: when convert_file falls back from UTF-8 to Latin-1 mid-stream, no
\* input byte is lost or duplicated: after a successful run that fell back,
\* every input byte is represented exactly once in the output, the bytes
\* before the fallback as UTF-8 text and the bytes from the fallback on as
\* one Latin-1 character each, bytes the decoder had buffered included.
C1_NoByteLostAtFallback ==
    \A c \in DOMAIN conv :
      (conv[c].pc = "done" /\ conv[c].fallback_used) => EveryByteOnce(c)

\* C2: a file that ends in the middle of a UTF-8 multi-byte sequence
\* triggers the fallback: the conversion ends in success with Latin-1 as the
\* encoding used, never in a failure.
C2_TruncatedEndFallsBack ==
    \A c \in DOMAIN conv :
      (Terminated(c) /\ NoHostError(c) /\ EndsMidSequence(Src(c)))
        => conv[c].pc = "done" /\ conv[c].encoding = "latin-1"

\* C3: for every content that is valid UTF-8 and every chunk size the
\* fallback is never triggered, no decode error is raised (a sequence cut by
\* a chunk boundary is buffered), and a successful run leaves output bytes
\* equal to the input bytes.
C3_ValidUtf8RoundTrip ==
    \A c \in DOMAIN conv :
      IsValidUTF8(Src(c)) =>
        /\ ~conv[c].fallback_used
        /\ FallbackCount(conv[c].log) = 0
        /\ conv[c].error \notin {"UnicodeDecodeError", "UnicodeEncodeError"}
        /\ (conv[c].pc = "done" => Dst(c) = Src(c))

\* A successful run at chunk size 1 over a 3-byte character: every chunk
\* boundary falls inside the sequence.
C3_Witness ==
    \E c \in DOMAIN conv :
      /\ conv[c].pc = "done"
      /\ chunk_size = 1
      /\ Src(c) = <<226, 128, 169>>
      /\ Dst(c) = <<226, 128, 169>>


\* The conversion of a file read as one chunk (lines 80-98 with the whole
\* content returned by the first read): its outcome and the bytes written.
WholeFileDecode(content) ==
    LET r == decode("utf-8", <<>>, content, FALSE)
        f == decode("utf-8", r.buffer, <<>>, TRUE)
    IN  IF content = <<>> THEN [pc |-> "done", out |-> <<>>]
        ELSE IF r.err
             THEN [pc |-> "done", out |-> TextToBytes(latin_1_decode(content))]
        ELSE IF f.err THEN [pc |-> "raised", out |-> TextToBytes(r.text)]
        ELSE [pc |-> "done", out |-> TextToBytes(r.text \o f.text)]

\* C4 as stated: for the same content a chunked run and a single whole-file
\* decode end with the same outcome and byte-identical output, wherever the
\* chunk boundaries fall, for every content, content with bytes invalid
\* under UTF-8 included.
C4_ChunkingInvisible ==
    \A c \in DOMAIN conv :
      (Terminated(c) /\ NoHostError(c)) =>
        /\ conv[c].pc = WholeFileDecode(Src(c)).pc
        /\ Dst(c) = WholeFileDecode(Src(c)).out

\* C4 amended: the success/failure outcome never depends on where the chunk
\* boundaries fall, and the output is byte-identical to that of a single
\* whole-file decode for every run that did not fall back (valid UTF-8,
\* possibly cut short at the end); the output of a run that fell back may
\* differ, since earlier chunks stay decoded as UTF-8.
C4_ChunkingInvisibleWithoutFallback ==
    \A c \in DOMAIN conv :
      (Terminated(c) /\ NoHostError(c)) =>
        /\ conv[c].pc = WholeFileDecode(Src(c)).pc
        /\ ~conv[c].fallback_used => Dst(c) = WholeFileDecode(Src(c)).out

\* A run in chunks of 2 bytes that cut the 3-byte character after its
\* second byte, ended without fallback.
C4_Witness ==
    \E c \in DOMAIN conv :
      /\ conv[c].pc = "done"
      /\ chunk_size = 2
      /\ Src(c) = <<226, 128, 169>>
      /\ ~conv[c].fallback_used

\* C5: for every input with at least one byte sequence invalid under UTF-8
\* exactly one fallback transition happens (never zero, never more), and
\* the characters written from the fallback point on are as many as the
\* input bytes from the fallback point on.
C5_ExactlyOneFallback ==
    \A c \in DOMAIN conv :
      (Terminated(c) /\ NoHostError(c) /\ ~IsValidUTF8(Src(c))) =>
        /\ FallbackCount(conv[c].log) = 1
        /\ \E k \in 0..Len(Src(c)) :
             /\ IsValidUTF8(Prefix(Src(c), k))
             /\ CharCount(Dst(c)) = CharCount(Prefix(Src(c), k)) + Len(Src(c)) - k

\* C7: within one run the decoder makes at most one transition, UTF-8 to
\* Latin-1, and it is irreversible: once fallback_used is true it stays
\* true, the decoder is Latin-1 in every later step, no further fallback is
\* logged, and the decoder is Latin-1 exactly when fallback_used is true.
C7_FallbackIrreversible ==
    [][\A c \in DOMAIN conv \cap DOMAIN conv' :
         LET s == conv[c]
             t == conv'[c]
         IN  /\ s.fallback_used =>
                  /\ t.fallback_used
                  /\ t.encoding = "latin-1"
                  /\ FallbackCount(t.log) = FallbackCount(s.log)
             /\ (t.encoding = "latin-1") = t.fallback_used
             /\ FallbackCount(t.log) = (IF t.fallback_used THEN 1 ELSE 0)
             /\ (s.encoding = "utf-8" /\ t.encoding # "utf-8") =>
                  (t.encoding = "latin-1" /\ ~s.fallback_used)]_vars

\* A fallback on the first chunk of three, the two later chunks and the
\* final flush then handled by the Latin-1 decoder.
C7_Witness ==
    \E c \in DOMAIN conv :
      /\ conv[c].pc = "done"
      /\ chunk_size = 1
      /\ conv[c].fallback_used
      /\ Src(c) = <<255, 195, 65>>
      /\ Dst(c) = <<195, 191, 195, 131, 65>>

\* C8: every failure of convert_file (source or destination cannot be
\* opened, read or write error, unrecovered decode failure) is raised to the
\* caller and logged as an error for the source path; no such run emits the
\* success event, and the success event is emitted only after every chunk
\* was read and written and the final flush was done.
C8_FailuresReported ==
    \A c \in DOMAIN conv :
      LET s == conv[c]
          HasEvent(e) == \E i \in 1..Len(s.log) : s.log[i] = e
      IN  /\ s.error # "none" => s.pc \in {"except", "raised"} /\ ~HasEvent("info_success")
          /\ s.pc = "raised" => s.error # "none" /\ s.log[Len(s.log)] = "error"
          /\ s.pc = "except" => s.error # "none"
          /\ HasEvent("error") => s.pc = "raised"
          /\ HasEvent("info_success") =>
               /\ s.pc = "done"
               /\ s.error = "none"
               /\ s.pos = Len(Src(c))
               /\ s.buffer = <<>>
               /\ ~HasEvent("error")
          /\ s.pc = "done" => HasEvent("info_success")

\* A decode failure that no fallback recovered, raised and logged after a
\* chunk had already been written.
C8_Witness ==
    \E c \in DOMAIN conv :
      /\ conv[c].pc = "raised"
      /\ conv[c].error = "UnicodeDecodeError"
      /\ conv[c].log = <<"info_start", "error">>
      /\ Dst(c) = <<65>>


(***************************************************************************)
(* Properties of the batch.                                                *)
(***************************************************************************)
\* The name ends in ".txt" in some mix of upper and lower case.
HasTxtExtension(n) ==
    /\ Len(n) >= 4
    /\ n[Len(n) - 3] = "."
    /\ n[Len(n) - 2] \in {"t", "T"}
    /\ n[Len(n) - 1] \in {"x", "X"}
    /\ n[Len(n)] \in {"t", "T"}

\* The entries the input directory held when the batch began.
Entries0 == {n \in Names : dir0[n] # Absent}
Txt0     == {n \in Entries0 : HasTxtExtension(n)}
NotTxt0  == Entries0 \ Txt0

DriverEnded == driver.pc \in {"returned", "raised"}

\* C6: one file's conversion failure does not abort the batch: when the
\* driver ends, every conversion of the batch has run (none was cancelled)
\* and the driver has obtained the outcome of each of them.
C6_FailureDoesNotAbortBatch ==
    DriverEnded =>
      /\ driver.collected = DOMAIN conv
      /\ \A c \in DOMAIN conv : conv[c].pc # "cancelled"

DistinctAcrossConversions ==
    \A c \in DOMAIN conv : \A d \in DOMAIN conv \ {c} :
      conv[c].output_path \notin {conv[d].input_path, conv[d].output_path}

Relocated ==
    \A n \in Names :
      IF n \in NotTxt0
      THEN fs[<<"in", n>>] = Absent /\ fs[<<"err", n>>] = dir0[n]
      ELSE fs[<<"err", n>>] = Absent

\* C10: of the N entries of the input directory exactly the M that do not
\* end in ".txt" (in any case) are relocated to error_files, exactly N - M
\* conversions are created, one per matching entry and each writing to the
\* same name in the output directory, and every relocation is done before
\* any conversion exists.
C10_RelocateThenConvert ==
    /\ \A n \in Names : fs[<<"err", n>>] # Absent => n \in NotTxt0
    /\ (DOMAIN conv # {} \/ driver.pc \in {"list_txt", "tasks", "await", "returned", "raised"})
         => Relocated
    /\ driver.pc \in {"await", "returned", "raised"} =>
         /\ DOMAIN conv = Txt0
         /\ Cardinality(DOMAIN conv) = Cardinality(Entries0) - Cardinality(NotTxt0)
         /\ \A c \in DOMAIN conv :
              /\ conv[c].input_path = <<driver.input_dir, c>>
              /\ conv[c].output_path = <<driver.output_dir, c>>

\* A batch of three entries, two relocated and the upper-case .TXT entry
\* converted.
C10_Witness ==
    /\ driver.pc = "returned"
    /\ NotTxt0 = {NoExt, TxtInside}
    /\ DOMAIN conv = {TxtUpper}
    /\ conv[TxtUpper].pc = "done"
    /\ fs[<<"err", TxtInside>>] # Absent

(***************************************************************************)
(* File handles, the empty file.                                           *)
(***************************************************************************)
\* The steps of convert_file that are inside the with block.
InWithBlock(pc) == pc \in {"open_out", "read", "decode", "write", "flush", "close"}

\* C11: both file handles of a conversion are released when convert_file
\* ends, on every path (normal end, re-raised decode failure, read or write
\* error, failure at the final flush, failure to open the destination with
\* the source open): no handle is open outside the with block, and none is
\* open once the except clause or the end of the function is reached.
C11_HandlesReleased ==
    \A c \in DOMAIN conv :
      LET s == conv[c]
      IN  /\ (s.infile_open \/ s.outfile_open) => InWithBlock(s.pc)
          /\ s.outfile_open => s.infile_open
          /\ s.pc \in {"except", "raised", "log_ok", "done"} =>
               ~s.infile_open /\ ~s.outfile_open

\* A read or write error of the host in mid-stream, after a chunk had been
\* read with both files open, ended with both handles released.
C11_Witness ==
    \E c \in DOMAIN conv :
      /\ conv[c].pc = "raised"
      /\ conv[c].error = "OSError"
      /\ conv[c].pos > 0
      /\ ~conv[c].infile_open
      /\ ~conv[c].outfile_open

\* C12: convert_file on an empty source (the first read returns no bytes)
\* writes an empty destination and ends in success without fallback.
C12_EmptyFile ==
    \A c \in DOMAIN conv :
      (Src(c) = <<>> /\ conv[c].pc \in {"flush", "close", "log_ok", "done"}) =>
        /\ Dst(c) = <<>>
        /\ ~conv[c].fallback_used
        /\ conv[c].error = "none"
        /\ conv[c].pos = 0
        /\ (Terminated(c) => conv[c].pc = "done"
                             /\ conv[c].log = <<"info_start", "info_success">>)

\* An empty source converted to its end.
C12_Witness ==
    \E c \in DOMAIN conv :
      /\ Src(c) = <<>>
      /\ conv[c].pc = "done"
      /\ Dst(c) = <<>>
      /\ conv[c].chunk = <<>>

(***************************************************************************)
(* What the fallback writes, and what a run leaves in the destination.     *)
(***************************************************************************)
IsPrefixOf(a, b) == Len(a) <= Len(b) /\ SubSeq(b, 1, Len(a)) = a

\* C14: at the fallback the text written for prior chunks is left as it is
\* (after its open the destination only grows by appending), and the whole
\* chunk on which UTF-8 decoding failed, a valid prefix of it included, and
\* every later chunk are decoded as Latin-1, one character per byte.
C14_FallbackKeepsPriorOutput ==
    [][\A c \in DOMAIN conv \cap DOMAIN conv' :
         LET s == conv[c]
             t == conv'[c]
             before == fs[s.output_path]
             after  == fs'[s.output_path]
         IN  /\ s.outfile_open => IsPrefixOf(before, after)
             /\ (~s.fallback_used /\ t.fallback_used) =>
                  /\ after = before
                  /\ t.chunk = s.chunk
                  /\ t.decoded_chunk = s.chunk
                  /\ t.pc = "write"
             /\ (s.fallback_used /\ s.pc = "decode") =>
                  t.decoded_chunk = s.chunk /\ t.pc = "write"
             /\ (s.fallback_used /\ s.pc = "write" /\ t.pc = "read") =>
                  after = before \o Latin1AsUtf8(s.chunk)]_vars

\* One chunk that begins with a valid 2-byte character and ends in an
\* invalid byte, written as three Latin-1 characters.
C14_Witness ==
    \E c \in DOMAIN conv :
      /\ conv[c].pc = "done"
      /\ chunk_size = DefaultChunkSize
      /\ Src(c) = <<195, 169, 255>>
      /\ Dst(c) = <<195, 131, 194, 169, 195, 191>>

\* C15: once the fallback has latched no decode step fails: the decode of
\* every later chunk and the final flush succeed under the Latin-1 decoder,
\* so a run that fell back never ends in a decode error (the branch that
\* re-raises with fallback_used already true is never taken).
C15_NoFailureAfterFallback ==
    \A c \in DOMAIN conv :
      LET s == conv[c]
      IN  s.fallback_used =>
            /\ s.error \notin {"UnicodeDecodeError", "UnicodeEncodeError"}
            /\ s.pc = "decode" => ~decode(s.encoding, s.buffer, s.chunk, FALSE).err
            /\ s.pc = "flush" => ~decode(s.encoding, s.buffer, <<>>, TRUE).err

\* Two invalid regions in chunks of one byte: the first latches the
\* fallback, the second is decoded without failure.
C15_Witness ==
    \E c \in DOMAIN conv :
      /\ conv[c].pc = "done"
      /\ chunk_size = 1
      /\ Src(c) = <<255, 65, 255>>
      /\ FallbackCount(conv[c].log) = 1

\* C16: after convert_file ends in success the destination is well-formed
\* UTF-8, with or without fallback; a run that fell back on its first chunk
\* has written every byte below 0x80 as one byte and every byte from 0x80
\* on as a two-byte sequence.
C16_OutputIsUtf8 ==
    \A c \in DOMAIN conv :
      conv[c].pc = "done" =>
        /\ IsValidUTF8(Dst(c))
        /\ (conv[c].fallback_used /\ chunk_size >= Len(Src(c))) =>
             /\ Len(Dst(c)) = Len(Src(c))
                              + Cardinality({i \in 1..Len(Src(c)) : Src(c)[i] >= 128})
             /\ CharCount(Dst(c)) = Len(Src(c))

\* A continuation byte and an invalid byte, each written as two bytes.
C16_Witness ==
    \E c \in DOMAIN conv :
      /\ conv[c].pc = "done"
      /\ conv[c].fallback_used
      /\ Src(c) = <<128, 255>>
      /\ Dst(c) = <<194, 128, 195, 191>>

\* C17: the destination is opened, and thereby created or truncated, only
\* after the source was opened: no step before that, and no failure to open
\* the source or the destination, changes the destination.  With the source
\* open the destination is emptied before the first chunk is read, and a
\* later failure leaves in it what had been written so far.
C17_DestinationOpenedAfterSource ==
    [][\A c \in DOMAIN conv \cap DOMAIN conv' :
         LET s == conv[c]
             t == conv'[c]
             before == fs[s.output_path]
             after  == fs'[s.output_path]
         IN  /\ s.pc \in {"ready", "open_in"} => after = before
             /\ (s.pc = "open_out" /\ t.pc = "except") => after = before
             /\ (s.pc = "open_out" /\ t.pc = "read") => s.infile_open /\ after = <<>>
             /\ (s.pc = "read" /\ s.pos = 0) => s.outfile_open /\ before = <<>>
             /\ t.outfile_open => s.infile_open
             /\ (s.outfile_open /\ t.pc = "except") =>
                  after = before /\ after # Absent
             /\ s.pc \in {"except", "raised"} => after = before]_vars

\* An open that failed: the run is over and the older destination file is
\* as it was.
C17_Witness ==
    \E c \in DOMAIN conv :
      /\ conv[c].pc = "raised"
      /\ conv[c].error = "OSError"
      /\ conv[c].pos = 0
      /\ Dst(c) = OldDest

(***************************************************************************)
(* Properties of the __main__ block.                                       *)
(***************************************************************************)
Unset(v) == v \in {None, ""}

ExistingDirectory(path) == path \in {"in", "out"} /\ main.kind[path] = "dir"

\* No entry was relocated, no file converted or written.
NothingTouched ==
    /\ DOMAIN conv = {}
    /\ \A n \in Names :
         /\ fs[<<"in", n>>] = dir0[n]
         /\ fs[<<"out", n>>] = Absent
         /\ fs[<<"err", n>>] = Absent

\* C13: the batch begins only after the configuration was validated: with
\* INPUT_DIR or OUTPUT_DIR unset or empty, or an input path that is no
\* existing directory, the process gets no further than its checks and ends
\* in an error, before any file is relocated or converted; and when
\* async_batch_convert starts, with the paths of the configuration, both
\* the input and the output path are existing directories.
C13_ValidatedBeforeBatch ==
    /\ (Unset(main.input_dir) \/ Unset(main.output_dir)
        \/ ~ExistingDirectory(main.input_dir)) =>
         /\ main.pc \in {"check_env", "check_input", "failed"}
         /\ main.pc = "check_input" => ~Unset(main.input_dir) /\ ~Unset(main.output_dir)
         /\ main.pc = "failed" => main.error \in {"EnvironmentError", "FileNotFoundError"}
         /\ driver.pc = "none"
    /\ driver.pc = "none" => NothingTouched
    /\ main.pc = "failed" => main.error # "none" /\ driver.pc = "none"
    /\ driver.pc # "none" =>
         /\ main.pc = "running"
         /\ driver.input_dir = main.input_dir
         /\ driver.output_dir = main.output_dir
         /\ ExistingDirectory(driver.input_dir)
         /\ ExistingDirectory(driver.output_dir)

\* An empty OUTPUT_DIR: the process has failed and the input directory
\* still holds its non-.txt entry.
C13_Witness ==
    /\ main.pc = "failed"
    /\ main.error = "EnvironmentError"
    /\ main.input_dir = "in"
    /\ main.output_dir = ""
    /\ fs[<<"in", NoExt>>] # Absent

====
